---------------------------- MODULE Spec2Model ----------------------------
(*
  Model of src/models.rs: the two record types JobEntry and JobData and the
  decoder that `#[derive(Deserialize)]` generates for them.

  The derive carries no attribute (no `default`, no `deny_unknown_fields`,
  no `rename`), so the generated decoder is the stock one:
    - a struct is read from a map (visit_map) or from a sequence (visit_seq);
    - in a map, a member whose name is not a field is skipped, a field met
      twice is `duplicate_field`, a field never met is `missing_field`;
    - `u32` accepts integers in 0..2^32-1, answers `invalid_value` for an
      integer out of that range and `invalid_type` for any other kind;
    - `String` accepts text only, `Vec<T>` a sequence only.
  The raw payload is a self-describing tree (null, float, integer, text,
  list, map).  A map is a sequence of <<name, value>> members, in payload
  order, so that repeated and extraneous members can be expressed.

  An integer is written sign + two 16-bit halves (hi * 2^16 + lo) so that
  values on both sides of 2^32 can be expressed.
*)
EXTENDS Integers, Sequences, FiniteSets, TLC

VARIABLES pc, input, form, mi, ei, acc, slot, result

vars == <<pc, input, form, mi, ei, acc, slot, result>>

-----------------------------------------------------------------------------
(* Bounds *)

MaxEntries == 3

NumCallers == 2

-----------------------------------------------------------------------------
(* Raw payload values *)

Half == 2^16

Null == [kind |-> "null"]

Float == [kind |-> "float"]

Num(neg, hi, lo) == [kind |-> "int", neg |-> neg, hi |-> hi, lo |-> lo]

Str(s) == [kind |-> "str", s |-> s]

List(items) == [kind |-> "list", items |-> items]

Map(members) == [kind |-> "map", members |-> members]

-----------------------------------------------------------------------------
(* Results *)

Ok(v) == [tag |-> "Ok", value |-> v]

Err(k, w) == [tag |-> "Err", kind |-> k, what |-> w]

NoResult == [tag |-> "None"]

-----------------------------------------------------------------------------
(* The schema: field names in declaration order *)

JobEntryFields == <<"key", "name", "details", "tools", "screen", "link">>

JobDataFields == <<"entries">>

FieldSet(fields) == {fields[i] : i \in 1..Len(fields)}

-----------------------------------------------------------------------------
(* Leaf decoders *)

\* A u32 that wraps an out-of-range integer modulo 2^32 and drops the sign.
DeserializeU32Wrapping(v) ==
    IF v.kind = "int" THEN Ok(<<v.hi % Half, v.lo>>)
    ELSE Err("invalid_type", "u32")

\* A u32 that parses text and rounds floats instead of rejecting them.
DeserializeU32Coercing(v) ==
    CASE v.kind = "int" ->
             IF ~v.neg /\ v.hi < Half THEN Ok(<<v.hi, v.lo>>)
             ELSE Err("invalid_value", "u32")
      [] v.kind \in {"str", "float", "null"} -> Ok(<<0, 1>>)
      [] OTHER -> Err("invalid_type", "u32")

\* key: u32
DeserializeU32(v) ==
    IF v.kind = "int"
    THEN IF ~v.neg /\ v.hi < Half THEN Ok(<<v.hi, v.lo>>)
         ELSE Err("invalid_value", "u32")
    ELSE Err("invalid_type", "u32")

\* name, details, tools, screen, link: String
DeserializeString(v) ==
    IF v.kind = "str" THEN Ok(v.s) ELSE Err("invalid_type", "string")

\* The decoder of the field called f of JobEntry.
DeserializeField(f, v) ==
    IF f = "key" THEN DeserializeU32(v) ELSE DeserializeString(v)

-----------------------------------------------------------------------------
(* JobEntry *)

\* The first field, in declaration order from position i, that got no value.
RECURSIVE FirstMissing(_, _)
FirstMissing(got, i) ==
    IF i > Len(JobEntryFields) THEN ""
    ELSE IF JobEntryFields[i] \notin DOMAIN got THEN JobEntryFields[i]
    ELSE FirstMissing(got, i + 1)

\* A field the map never gave is filled with its type's default value.
MissingFieldDefault(got) ==
    LET val(f, d) == IF f \in DOMAIN got THEN got[f] ELSE d
    IN  Ok([key |-> val("key", <<0, 0>>), name |-> val("name", ""),
            details |-> val("details", ""), tools |-> val("tools", ""),
            screen |-> val("screen", ""), link |-> val("link", "")])

\* A map that ran out of members with a field unset: the decode fails.
MissingField(got) == Err("missing_field", FirstMissing(got, 1))

\* End of the map: every field must have been met.
BuildJobEntry(got) ==
    IF FirstMissing(got, 1) # ""
    THEN MissingField(got)
    ELSE Ok([key |-> got["key"], name |-> got["name"],
             details |-> got["details"], tools |-> got["tools"],
             screen |-> got["screen"], link |-> got["link"]])

\* A member whose name is no field of the struct is refused.
DenyUnknown(members, i, got) ==
    [done |-> TRUE, res |-> Err("unknown_field", members[i][1])]

\* A member whose name is no field of the struct: its value is skipped.
IgnoreUnknown(members, i, got) == [done |-> FALSE, got |-> got]

\* One member of the map: a field is decoded and stored (a second occurrence
\* is an error), anything else goes to IgnoreUnknown.
VisitMember(members, i, got) ==
    LET name == members[i][1]
        val  == members[i][2]
    IN  IF name \in FieldSet(JobEntryFields)
        THEN IF name \in DOMAIN got
             THEN [done |-> TRUE, res |-> Err("duplicate_field", name)]
             ELSE LET r == DeserializeField(name, val)
                  IN  IF r.tag = "Err" THEN [done |-> TRUE, res |-> r]
                      ELSE [done |-> FALSE, got |-> (name :> r.value) @@ got]
        ELSE IgnoreUnknown(members, i, got)

\* visit_map of JobEntry: the members in payload order, then the end check.
RECURSIVE VisitMapJobEntry(_, _, _)
VisitMapJobEntry(members, i, got) ==
    IF i > Len(members) THEN BuildJobEntry(got)
    ELSE LET step == VisitMember(members, i, got)
         IN  IF step.done THEN step.res
             ELSE VisitMapJobEntry(members, i + 1, step.got)

\* visit_seq of JobEntry: the fields by position, in declaration order; a
\* sequence that is too short or too long is invalid_length.
RECURSIVE VisitSeqJobEntry(_, _, _)
VisitSeqJobEntry(items, i, got) ==
    IF i > Len(JobEntryFields)
    THEN IF Len(items) > Len(JobEntryFields)
         THEN Err("invalid_length", "JobEntry")
         ELSE BuildJobEntry(got)
    ELSE IF i > Len(items) THEN Err("invalid_length", "JobEntry")
    ELSE LET r == DeserializeField(JobEntryFields[i], items[i])
         IN  IF r.tag = "Err" THEN r
             ELSE VisitSeqJobEntry(items, i + 1,
                                   (JobEntryFields[i] :> r.value) @@ got)

\* <JobEntry as Deserialize>::deserialize
DeserializeJobEntry(v) ==
    CASE v.kind = "map"  -> VisitMapJobEntry(v.members, 1, <<>>)
      [] v.kind = "list" -> VisitSeqJobEntry(v.items, 1, <<>>)
      [] OTHER           -> Err("invalid_type", "JobEntry")

-----------------------------------------------------------------------------
(* Vec<JobEntry> *)

\* An element that fails to decode is skipped and the loop goes on.
ElementStepSkipping(a, r) ==
    IF r.tag = "Err" THEN [fail |-> FALSE, acc |-> a]
    ELSE [fail |-> FALSE, acc |-> Append(a, r.value)]

\* Each decoded element is put in front of the earlier ones.
ElementStepPrepending(a, r) ==
    IF r.tag = "Err" THEN [fail |-> TRUE, res |-> r]
    ELSE [fail |-> FALSE, acc |-> <<r.value>> \o a]

\* One turn of the loop of Vec's visit_seq: the element's error ends the
\* loop (the `?`), its value is pushed at the end of the vector.
ElementStep(a, r) ==
    IF r.tag = "Err" THEN [fail |-> TRUE, res |-> r]
    ELSE [fail |-> FALSE, acc |-> Append(a, r.value)]

\* The vector under construction is one buffer shared by every call.
StoreAccShared(accs, p, a) == [q \in DOMAIN accs |-> a]

\* The vector under construction is a local of the call that builds it.
StoreAcc(accs, p, a) == [accs EXCEPT ![p] = a]

NoSlot == [set |-> FALSE, entries |-> <<>>]

\* An empty vector is taken for an absent one.
FinishVecNonEmpty(a) ==
    IF a = <<>> THEN NoSlot ELSE [set |-> TRUE, entries |-> a]

\* The finished vector becomes the value of the field `entries`.
FinishVec(a) == [set |-> TRUE, entries |-> a]

-----------------------------------------------------------------------------
(* JobData *)

\* An absent `entries` is replaced by the empty vector.
MissingEntriesDefault == Ok([entries |-> <<>>])

\* End of the map of JobData with `entries` never met.
MissingEntries == Err("missing_field", "entries")

\* The list that the call is iterating over: the value of the current
\* `entries` member (map form) or the first element (sequence form).
CurList(p) ==
    IF form[p] = "map" THEN input[p].members[mi[p]][2].items
    ELSE input[p].items[1].items

-----------------------------------------------------------------------------
(* The payloads the calls are given *)

U32Max == Num(FALSE, Half - 1, Half - 1)

\* An entry object with its six members in declaration order.
Entry(k, n, d, t, s, l) ==
    Map(<< <<"key", k>>, <<"name", Str(n)>>, <<"details", Str(d)>>,
           <<"tools", Str(t)>>, <<"screen", Str(s)>>, <<"link", Str(l)>> >>)

Welder ==
    Entry(Num(FALSE, 0, 1), "Welder", "Joins metal parts", "torch, mask",
          "Fabrication", "https://example.com/welder")

\* Same key as Welder, members in another order, extraneous members between.
Fitter ==
    Map(<< <<"link", Str(" HTTP://x ")>>, <<"id", Num(FALSE, 0, 9)>>,
           <<"screen", Str("")>>, <<"tools", Str("Torch")>>,
           <<"Name", Str("shadow")>>, <<"details", Str("fits")>>,
           <<"name", Str("Fitter")>>, <<"key", Num(FALSE, 0, 1)>>,
           <<"entries", List(<<>>)>> >>)

Rigger == Entry(U32Max, "Rigger", "rigs", "rope", "Yard", "r")

Zero == Entry(Num(FALSE, 0, 0), "Zero", "z", "none", "Z", "0")

ValidPool == {Welder, Fitter, Rigger, Zero}

RECURSIVE DropMember(_, _)
DropMember(members, f) ==
    IF members = <<>> THEN <<>>
    ELSE IF Head(members)[1] = f THEN DropMember(Tail(members), f)
    ELSE <<Head(members)>> \o DropMember(Tail(members), f)

SetMember(members, f, v) ==
    [i \in 1..Len(members) |->
        IF members[i][1] = f THEN <<f, v>> ELSE members[i]]

\* Entries that lack one field.
Dropped == {Map(DropMember(b.members, f)) :
               b \in {Welder, Fitter}, f \in FieldSet(JobEntryFields)}

\* Entries with one field of another kind.
WrongKinds(f) ==
    IF f = "key" THEN {Str("1"), Float, Null, List(<<>>)}
    ELSE {Num(FALSE, 0, 5), Null}

Retyped == {Map(SetMember(Welder.members, f, v)) :
               <<f, v>> \in UNION {{<<g, w>> : w \in WrongKinds(g)} :
                                      g \in FieldSet(JobEntryFields)}}

\* Entries whose key is an integer outside 0..2^32-1.
OutOfRange == {Map(SetMember(Welder.members, "key", k)) :
                  k \in {Num(TRUE, 0, 1), Num(FALSE, Half, 0),
                         Num(FALSE, Half, 1), Num(TRUE, Half, 1)}}

\* Other shapes: a repeated field, two defects at once, the sequence form
\* (right, short, long, mistyped), values that are no struct at all.
Others ==
    { Map(Welder.members \o << <<"name", Str("again")>> >>),
      Map(DropMember(SetMember(Welder.members, "key", Str("1")), "name")),
      Map(DropMember(SetMember(Welder.members, "link", Null), "key")),
      Map(DropMember(DropMember(Welder.members, "tools"), "name")),
      Map(<<>>),
      List(<<Num(FALSE, 0, 2), Str("n"), Str("d"), Str("t"), Str("s"),
             Str("l")>>),
      List(<<Num(FALSE, 0, 2), Str("n"), Str("d")>>),
      List(<<Num(FALSE, 0, 2), Str("n"), Str("d"), Str("t"), Str("s"),
             Str("l"), Str("more")>>),
      List(<<Str("2"), Str("n"), Str("d"), Str("t"), Str("s"), Str("l")>>),
      Str("Welder"), Null, Num(FALSE, 0, 1) }

Variants == Dropped \cup Retyped \cup OutOfRange \cup Others

\* The lists of at most MaxEntries entries from ValidPool.
ValidLists == UNION {[1..n -> ValidPool] : n \in 0..MaxEntries}

\* The same lists with one entry replaced by a variant.
DefectLists ==
    {[base EXCEPT ![d] = v] :
        <<base, d, v>> \in {t \in ValidLists \X (1..MaxEntries) \X Variants :
                               t[2] <= Len(t[1])}}

\* Two variants side by side: the first defect met decides the error.
DefectPairs == {<<v, w>> : v \in Variants, w \in Variants}

Extra == <<"version", Num(FALSE, 0, 3)>>

\* The shapes of the top level around a list of entries.
TopShapes(items) ==
    { Map(<< <<"entries", List(items)>> >>),
      Map(<< Extra, <<"entries", List(items)>>, <<"meta", Map(<<Extra>>)>> >>),
      Map(<< <<"entries", List(items)>>, <<"entries", List(items)>> >>),
      Map(<< <<"Entries", List(items)>> >>),
      List(<< List(items) >>),
      List(<< List(items), Null >>) }

\* Top levels without a usable `entries`.
NoEntries ==
    { Map(<<>>), Map(<<Extra>>),
      Map(<< <<"entries", Null>> >>),
      Map(<< <<"entries", Str("[]")>> >>),
      Map(<< <<"entries", Num(FALSE, 0, 0)>>, Extra >>),
      Map(<< Extra, <<"entries", Welder>> >>),
      List(<<>>), List(<<Null>>), Null, Str("entries"), Num(FALSE, 0, 1) }

Plain(items) == Map(<< <<"entries", List(items)>> >>)

Payloads ==
    UNION {TopShapes(items) : items \in ValidLists}
        \cup {Plain(items) : items \in DefectLists \cup DefectPairs}
        \cup NoEntries

\* The payloads of the concurrent calls.
SmallPayloads ==
    { Plain(<<>>), Plain(<<Welder>>), Plain(<<Fitter, Rigger>>),
      Plain(<<Rigger, Map(DropMember(Welder.members, "tools"))>>),
      Plain(<<Map(SetMember(Welder.members, "key", Str("1"))), Zero>>),
      List(<< List(<<Zero>>) >>), Map(<<Extra>>), Null }

-----------------------------------------------------------------------------
(* The calls.  pc[p] is where call p stands: "idle" (no call), "start",
   "map" / "struct_seq" (in JobData's visit_map / visit_seq), "seq" (in the
   loop of Vec<JobEntry>), "done" (returned, result[p] is the outcome). *)

Callers == DOMAIN pc

InitFor(callers) ==
    /\ pc = [p \in callers |-> "idle"]
    /\ input = [p \in callers |-> Null]
    /\ form = [p \in callers |-> "none"]
    /\ mi = [p \in callers |-> 0]
    /\ ei = [p \in callers |-> 0]
    /\ acc = [p \in callers |-> <<>>]
    /\ slot = [p \in callers |-> NoSlot]
    /\ result = [p \in callers |-> NoResult]

Init == InitFor({1})

InitConc == InitFor(1..NumCallers)

\* The call returns r: the vector under construction, if any, is dropped.
Finish(p, r) ==
    /\ pc' = [pc EXCEPT ![p] = "done"]
    /\ result' = [result EXCEPT ![p] = r]
    /\ acc' = StoreAcc(acc, p, <<>>)
    /\ UNCHANGED <<input, form, mi, ei, slot>>

\* decode(raw) is called.
CallWith(p, raw) ==
    /\ pc[p] = "idle"
    /\ pc' = [pc EXCEPT ![p] = "start"]
    /\ input' = [input EXCEPT ![p] = raw]
    /\ UNCHANGED <<form, mi, ei, acc, slot, result>>

Call(p) == \E raw \in Payloads : CallWith(p, raw)

CallSmall(p) == \E raw \in SmallPayloads : CallWith(p, raw)

\* <JobData as Deserialize>::deserialize: a map or a sequence is visited,
\* anything else is invalid_type.
DeserializeJobData(p) ==
    /\ pc[p] = "start"
    /\ IF input[p].kind \in {"map", "list"}
       THEN /\ pc' = [pc EXCEPT ![p] =
                        IF input[p].kind = "map" THEN "map" ELSE "struct_seq"]
            /\ form' = [form EXCEPT ![p] = input[p].kind]
            /\ mi' = [mi EXCEPT ![p] = 1]
            /\ UNCHANGED <<input, ei, acc, slot, result>>
       ELSE Finish(p, Err("invalid_type", "JobData"))

\* The vector of `entries` starts: an empty Vec, the first element next.
StartVec(p) ==
    /\ pc' = [pc EXCEPT ![p] = "seq"]
    /\ ei' = [ei EXCEPT ![p] = 1]
    /\ acc' = StoreAcc(acc, p, <<>>)
    /\ UNCHANGED <<input, form, mi, slot, result>>

\* visit_map of JobData, one member per step; past the last member the
\* struct is built or `entries` is missing.
VisitMapKey(p) ==
    /\ pc[p] = "map"
    /\ LET members == input[p].members
       IN  IF mi[p] > Len(members)
           THEN IF slot[p].set
                THEN Finish(p, Ok([entries |-> slot[p].entries]))
                ELSE Finish(p, MissingEntries)
           ELSE LET name == members[mi[p]][1]
                    val  == members[mi[p]][2]
                IN  IF name \in FieldSet(JobDataFields)
                    THEN IF slot[p].set
                         THEN Finish(p, Err("duplicate_field", name))
                         ELSE IF val.kind # "list"
                         THEN Finish(p, Err("invalid_type", "Vec"))
                         ELSE StartVec(p)
                    ELSE /\ mi' = [mi EXCEPT ![p] = @ + 1]
                         /\ UNCHANGED <<pc, input, form, ei, acc, slot,
                                        result>>

\* visit_seq of JobData: the first element is `entries`, and there must be
\* no second one.
VisitSeqField(p) ==
    /\ pc[p] = "struct_seq"
    /\ LET items == input[p].items
       IN  IF mi[p] = 1
           THEN IF Len(items) = 0
                THEN Finish(p, Err("invalid_length", "JobData"))
                ELSE IF items[1].kind # "list"
                THEN Finish(p, Err("invalid_type", "Vec"))
                ELSE StartVec(p)
           ELSE IF Len(items) > 1
                THEN Finish(p, Err("invalid_length", "JobData"))
                ELSE Finish(p, Ok([entries |-> slot[p].entries]))

\* The loop of Vec's visit_seq, one element per step.
NextElement(p) ==
    /\ pc[p] = "seq"
    /\ ei[p] <= Len(CurList(p))
    /\ LET step == ElementStep(acc[p],
                               DeserializeJobEntry(CurList(p)[ei[p]]))
       IN  IF step.fail
           THEN Finish(p, step.res)
           ELSE /\ acc' = StoreAcc(acc, p, step.acc)
                /\ ei' = [ei EXCEPT ![p] = @ + 1]
                /\ UNCHANGED <<pc, input, form, mi, slot, result>>

\* The list is exhausted: the vector is moved into the field `entries` and
\* the struct visitor goes on.
EndSeq(p) ==
    /\ pc[p] = "seq"
    /\ ei[p] > Len(CurList(p))
    /\ slot' = [slot EXCEPT ![p] = FinishVec(acc[p])]
    /\ acc' = StoreAcc(acc, p, <<>>)
    /\ pc' = [pc EXCEPT ![p] = IF form[p] = "map" THEN "map"
                                ELSE "struct_seq"]
    /\ mi' = [mi EXCEPT ![p] = @ + 1]
    /\ UNCHANGED <<input, form, ei, result>>

\* The caller takes the outcome; nothing of the call is kept.
Return(p) ==
    /\ pc[p] = "done"
    /\ pc' = [pc EXCEPT ![p] = "idle"]
    /\ input' = [input EXCEPT ![p] = Null]
    /\ form' = [form EXCEPT ![p] = "none"]
    /\ mi' = [mi EXCEPT ![p] = 0]
    /\ ei' = [ei EXCEPT ![p] = 0]
    /\ slot' = [slot EXCEPT ![p] = NoSlot]
    /\ result' = [result EXCEPT ![p] = NoResult]
    /\ UNCHANGED acc

Step(p) ==
    \/ DeserializeJobData(p)
    \/ VisitMapKey(p)
    \/ VisitSeqField(p)
    \/ NextElement(p)
    \/ EndSeq(p)
    \/ Return(p)

Next == \E p \in Callers : Call(p) \/ Step(p)

NextConc == \E p \in Callers : CallSmall(p) \/ Step(p)

Spec == Init /\ [][Next]_vars

SpecConc == InitConc /\ [][NextConc]_vars


-----------------------------------------------------------------------------
(* decode as a function of the payload alone: what one call, run from start
   to return with nothing else going on, answers. *)

RECURSIVE DecodeVec(_, _, _)
DecodeVec(items, i, a) ==
    IF i > Len(items) THEN Ok(a)
    ELSE LET step == ElementStep(a, DeserializeJobEntry(items[i]))
         IN  IF step.fail THEN step.res
             ELSE DecodeVec(items, i + 1, step.acc)

RECURSIVE DecodeMap(_, _, _)
DecodeMap(members, i, s) ==
    IF i > Len(members)
    THEN IF s.set THEN Ok([entries |-> s.entries]) ELSE MissingEntries
    ELSE IF members[i][1] \notin FieldSet(JobDataFields)
    THEN DecodeMap(members, i + 1, s)
    ELSE IF s.set THEN Err("duplicate_field", members[i][1])
    ELSE IF members[i][2].kind # "list" THEN Err("invalid_type", "Vec")
    ELSE LET r == DecodeVec(members[i][2].items, 1, <<>>)
         IN  IF r.tag = "Err" THEN r
             ELSE DecodeMap(members, i + 1, FinishVec(r.value))

DecodeSeq(items) ==
    IF Len(items) = 0 THEN Err("invalid_length", "JobData")
    ELSE IF items[1].kind # "list" THEN Err("invalid_type", "Vec")
    ELSE LET r == DecodeVec(items[1].items, 1, <<>>)
         IN  IF r.tag = "Err" THEN r
             ELSE IF Len(items) > 1 THEN Err("invalid_length", "JobData")
             ELSE Ok([entries |-> FinishVec(r.value).entries])

Decode(raw) ==
    CASE raw.kind = "map"  -> DecodeMap(raw.members, 1, NoSlot)
      [] raw.kind = "list" -> DecodeSeq(raw.items)
      [] OTHER             -> Err("invalid_type", "JobData")

-----------------------------------------------------------------------------
(* Vocabulary of the properties, stated on the payload itself *)

Done(p) == pc[p] = "done"

Failed(p) == Done(p) /\ result[p].tag = "Err"

Succeeded(p) == Done(p) /\ result[p].tag = "Ok"

\* The positions of the members called f.
Occurrences(members, f) == {i \in 1..Len(members) : members[i][1] = f}

\* The value of the first member called f.
Lookup(members, f) ==
    members[CHOOSE i \in Occurrences(members, f) :
                \A j \in Occurrences(members, f) : i <= j][2]

InU32(v) == v.kind = "int" /\ ~v.neg /\ v.hi < Half

\* The kind the schema wants for field f.
RightKind(f, v) == IF f = "key" THEN InU32(v) ELSE v.kind = "str"

\* Field f is there once, with a value of the right kind.
FieldFine(e, f) ==
    /\ Cardinality(Occurrences(e.members, f)) = 1
    /\ RightKind(f, Lookup(e.members, f))

\* An entry object carrying each of the six fields once, of the right kind
\* (and possibly other members).
WellFormed(e) ==
    /\ e.kind = "map"
    /\ \A f \in FieldSet(JobEntryFields) : FieldFine(e, f)

\* The positional form of an entry: exactly the six values, in order.
WellFormedSeq(e) ==
    /\ e.kind = "list"
    /\ Len(e.items) = Len(JobEntryFields)
    /\ \A i \in 1..Len(JobEntryFields) :
           RightKind(JobEntryFields[i], e.items[i])

\* The payload is an object with a list-valued `entries`, met first among
\* the members of that name.
HasList(raw) ==
    /\ raw.kind = "map"
    /\ Occurrences(raw.members, "entries") # {}
    /\ Lookup(raw.members, "entries").kind = "list"

ItemsOf(raw) == Lookup(raw.members, "entries").items

\* A valid input: one `entries` list whose elements are all well formed.
ValidPayload(raw) ==
    /\ HasList(raw)
    /\ Cardinality(Occurrences(raw.members, "entries")) = 1
    /\ \A i \in 1..Len(ItemsOf(raw)) : WellFormed(ItemsOf(raw)[i])

\* The record whose fields are the values the entry object carries.
Expected(e) ==
    [key     |-> <<Lookup(e.members, "key").hi, Lookup(e.members, "key").lo>>,
     name    |-> Lookup(e.members, "name").s,
     details |-> Lookup(e.members, "details").s,
     tools   |-> Lookup(e.members, "tools").s,
     screen  |-> Lookup(e.members, "screen").s,
     link    |-> Lookup(e.members, "link").s]

ExpectedAll(raw) ==
    [entries |-> [i \in 1..Len(ItemsOf(raw)) |-> Expected(ItemsOf(raw)[i])]]

-----------------------------------------------------------------------------
(* C1 *)

\* C1: a valid input with n entries decodes to a collection of exactly n
\* entries, the i-th of which carries the six values of the i-th input
\* object, unchanged and in the input's order, repeated keys included.
C1_OrderAndFieldsPreserved ==
    \A p \in Callers :
        Done(p) /\ ValidPayload(input[p]) =>
            /\ result[p].tag = "Ok"
            /\ Len(result[p].value.entries) = Len(ItemsOf(input[p]))
            /\ \A i \in 1..Len(ItemsOf(input[p])) :
                   result[p].value.entries[i] = Expected(ItemsOf(input[p])[i])

C1_Witness ==
    \E p \in Callers :
        /\ Succeeded(p)
        /\ ValidPayload(input[p])
        /\ Len(result[p].value.entries) >= 3
        /\ result[p].value.entries[1].key = result[p].value.entries[2].key
        /\ result[p].value.entries[1].name # result[p].value.entries[2].name
        /\ result[p].value.entries[3].name # result[p].value.entries[2].name

-----------------------------------------------------------------------------
(* C2 *)

\* Entry e lacks field f and is otherwise well formed.
LacksOnly(e, f) ==
    /\ e.kind = "map"
    /\ Occurrences(e.members, f) = {}
    /\ \A g \in FieldSet(JobEntryFields) \ {f} : FieldFine(e, g)

\* The payload has one `entries` list, and every element but the d-th is
\* well formed.
OnlyDefectAt(raw, d) ==
    /\ HasList(raw)
    /\ Cardinality(Occurrences(raw.members, "entries")) = 1
    /\ d \in 1..Len(ItemsOf(raw))
    /\ \A i \in 1..Len(ItemsOf(raw)) \ {d} : WellFormed(ItemsOf(raw)[i])

\* C2: at every position and for each of the six fields, an entry object
\* without that field makes decode fail and return no collection (no
\* default stands in for it); when the absence is the payload's only
\* defect, the error is missing_field and names that field.
C2_MissingFieldFails ==
    \A p \in Callers :
        Done(p) /\ HasList(input[p]) =>
            \A d \in 1..Len(ItemsOf(input[p])) :
                \A f \in FieldSet(JobEntryFields) :
                    LET e == ItemsOf(input[p])[d]
                    IN  /\ (e.kind = "map" /\ Occurrences(e.members, f) = {})
                               => result[p].tag = "Err"
                        /\ (OnlyDefectAt(input[p], d) /\ LacksOnly(e, f))
                               => result[p] = Err("missing_field", f)

C2_Witness ==
    \E p \in Callers :
        /\ Done(p)
        /\ OnlyDefectAt(input[p], 2)
        /\ LacksOnly(ItemsOf(input[p])[2], "link")
        /\ result[p] = Err("missing_field", "link")

-----------------------------------------------------------------------------
(* C3 *)

\* The kind of value field f is made of.
KindOf(f) == IF f = "key" THEN "int" ELSE "str"

\* Entry e carries field f once, with a value of another kind, and is
\* otherwise well formed.
MistypedOnly(e, f) ==
    /\ e.kind = "map"
    /\ Cardinality(Occurrences(e.members, f)) = 1
    /\ Lookup(e.members, f).kind # KindOf(f)
    /\ \A g \in FieldSet(JobEntryFields) \ {f} : FieldFine(e, g)

\* C3: an entry object whose `key` is not an integer, or whose name,
\* details, tools, screen or link is not text, makes decode fail (nothing is
\* coerced); when it is the payload's only defect the error is
\* invalid_type, which is not the error of a missing field.
C3_WrongKindFails ==
    \A p \in Callers :
        Done(p) /\ HasList(input[p]) =>
            \A d \in 1..Len(ItemsOf(input[p])) :
                \A f \in FieldSet(JobEntryFields) :
                    LET e == ItemsOf(input[p])[d]
                    IN  /\ (/\ e.kind = "map"
                            /\ \E i \in Occurrences(e.members, f) :
                                   e.members[i][2].kind # KindOf(f))
                               => result[p].tag = "Err"
                        /\ (OnlyDefectAt(input[p], d) /\ MistypedOnly(e, f))
                               => /\ result[p].tag = "Err"
                                  /\ result[p].kind = "invalid_type"
                                  /\ result[p].kind # "missing_field"

C3_Witness ==
    \E p \in Callers :
        /\ Done(p)
        /\ OnlyDefectAt(input[p], 2)
        /\ MistypedOnly(ItemsOf(input[p])[2], "key")
        /\ Lookup(ItemsOf(input[p])[2].members, "key").kind = "str"
        /\ result[p] = Err("invalid_type", "u32")

-----------------------------------------------------------------------------
(* C4 *)

\* The payload is an object without any `entries` member.
EntriesAbsent(raw) ==
    raw.kind = "map" /\ Occurrences(raw.members, "entries") = {}

\* The payload is an object whose `entries` is not a list.
EntriesNotList(raw) ==
    /\ raw.kind = "map"
    /\ Occurrences(raw.members, "entries") # {}
    /\ Lookup(raw.members, "entries").kind # "list"

\* C4 as claimed: an absent or non-list `entries` fails with an error of
\* its own class, which is neither the missing-field nor the type-mismatch
\* error.
C4_OwnErrorClass ==
    \A p \in Callers :
        Done(p) /\ (EntriesAbsent(input[p]) \/ EntriesNotList(input[p])) =>
            /\ result[p].tag = "Err"
            /\ result[p].kind \notin {"missing_field", "invalid_type"}

\* C4 amended: an absent `entries` fails with missing_field naming
\* `entries`, a non-list `entries` fails with invalid_type, the kinds also
\* used for an entry's fields; no collection is returned.
C4_AbsentOrNotListFails ==
    \A p \in Callers :
        /\ Done(p) /\ EntriesAbsent(input[p])
               => result[p] = Err("missing_field", "entries")
        /\ Done(p) /\ EntriesNotList(input[p])
               => result[p] = Err("invalid_type", "Vec")

C4_Witness ==
    \E p \in Callers :
        /\ Failed(p)
        /\ EntriesAbsent(input[p])
        /\ input[p].members # <<>>
        /\ result[p].kind = "missing_field"

-----------------------------------------------------------------------------
(* C5 *)

\* An element that is no well-formed entry, in either form.
Invalid(e) == ~WellFormed(e) /\ ~WellFormedSeq(e)

-----------------------------------------------------------------------------
(* C6 *)

\* Entry e is well formed except that its key is some integer.
IntKeyed(e) ==
    /\ e.kind = "map"
    /\ Cardinality(Occurrences(e.members, "key")) = 1
    /\ Lookup(e.members, "key").kind = "int"
    /\ \A g \in FieldSet(JobEntryFields) \ {"key"} : FieldFine(e, g)

\* C6: a payload whose only possible defect is the range of one integer key
\* decodes exactly when that key is in 0..2^32-1, and then to the same
\* value; any entry object whose key is an integer outside that range makes
\* decode fail, and a decoded key is always the input's integer.
C6_KeyRange ==
    \A p \in Callers :
        Done(p) /\ HasList(input[p]) =>
            \A d \in 1..Len(ItemsOf(input[p])) :
                LET e == ItemsOf(input[p])[d]
                    k == Lookup(e.members, "key")
                IN  /\ (OnlyDefectAt(input[p], d) /\ IntKeyed(e)) =>
                           (result[p].tag = "Ok" <=> InU32(k))
                    /\ (/\ e.kind = "map"
                        /\ Occurrences(e.members, "key") # {}
                        /\ k.kind = "int"
                        /\ ~InU32(k)) => result[p].tag = "Err"
                    /\ (result[p].tag = "Ok" /\ e.kind = "map") =>
                           /\ InU32(k)
                           /\ result[p].value.entries[d].key = <<k.hi, k.lo>>

C6_Witness ==
    \E p \in Callers :
        /\ Failed(p)
        /\ OnlyDefectAt(input[p], 1)
        /\ IntKeyed(ItemsOf(input[p])[1])
        /\ Lookup(ItemsOf(input[p])[1].members, "key") = Num(FALSE, Half, 1)
        /\ result[p] = Err("invalid_value", "u32")

-----------------------------------------------------------------------------
(* C7 *)

\* The members whose name is in keep, in their order.
RECURSIVE KeepMembers(_, _)
KeepMembers(members, keep) ==
    IF members = <<>> THEN <<>>
    ELSE IF Head(members)[1] \in keep
    THEN <<Head(members)>> \o KeepMembers(Tail(members), keep)
    ELSE KeepMembers(Tail(members), keep)

StripEntry(e) ==
    IF e.kind = "map"
    THEN Map(KeepMembers(e.members, FieldSet(JobEntryFields)))
    ELSE e

StripValue(v) ==
    IF v.kind = "list"
    THEN List([i \in 1..Len(v.items) |-> StripEntry(v.items[i])])
    ELSE v

\* The payload object without its extraneous members, at both levels.
Strip(raw) ==
    LET kept == KeepMembers(raw.members, FieldSet(JobDataFields))
    IN  Map([i \in 1..Len(kept) |-> <<kept[i][1], StripValue(kept[i][2])>>])

\* C7: a payload that is valid once its extraneous members are removed, at
\* the top level and inside the entries, decodes, and to the collection
\* that the payload without those members decodes to.
C7_ExtraMembersIgnored ==
    \A p \in Callers :
        (Done(p) /\ input[p].kind = "map" /\ ValidPayload(Strip(input[p])))
            => /\ result[p] = Ok(ExpectedAll(Strip(input[p])))
               /\ result[p] = Decode(Strip(input[p]))

C7_Witness ==
    \E p \in Callers :
        /\ Succeeded(p)
        /\ input[p].kind = "map"
        /\ ValidPayload(Strip(input[p]))
        /\ Len(input[p].members) > Len(Strip(input[p]).members)
        /\ \E i \in 1..Len(ItemsOf(input[p])) :
               ItemsOf(input[p])[i] # StripEntry(ItemsOf(input[p])[i])
        /\ result[p].value.entries # <<>>

-----------------------------------------------------------------------------
(* C9 *)

\* The payload is an object whose one `entries` member is the empty list.
EmptyList(raw) ==
    /\ raw.kind = "map"
    /\ Cardinality(Occurrences(raw.members, "entries")) = 1
    /\ Lookup(raw.members, "entries") = List(<<>>)

\* C9: an `entries` that is present and empty decodes to the collection of
\* zero entries, not to an error.
C9_EmptyListDecodes ==
    \A p \in Callers :
        Done(p) /\ EmptyList(input[p]) => result[p] = Ok([entries |-> <<>>])

C9_Witness ==
    \E p \in Callers :
        Succeeded(p) /\ EmptyList(input[p]) /\ result[p].value.entries = <<>>

-----------------------------------------------------------------------------
(* C10 *)

\* All that call p holds.
Local(p) ==
    <<pc[p], input[p], form[p], mi[p], ei[p], acc[p], slot[p], result[p]>>

\* C10: whatever the other calls do meanwhile and whatever was decoded
\* before, a returned call holds what decode answers on its input alone; a
\* step changes what one call holds and nothing of the others; the input
\* of a call in progress is never changed.
C10_CallsIndependent ==
    /\ [](\A p \in Callers : Done(p) => result[p] = Decode(input[p]))
    /\ [][/\ \A p, q \in Callers :
               (Local(p)' # Local(p) /\ Local(q)' # Local(q)) => p = q
          /\ \A p \in Callers :
               pc[p] # "idle" /\ pc'[p] # "idle" => input'[p] = input[p]]_vars

\* Two calls in flight at once: one has returned a collection while the
\* other is in the middle of its list with entries already decoded.
C10_Witness ==
    \E p, q \in Callers :
        /\ p # q
        /\ Succeeded(p)
        /\ result[p].value.entries # <<>>
        /\ pc[q] = "seq"
        /\ acc[q] # <<>>
        /\ input[q] # input[p]

=============================================================================
